---- MODULE Spec2Model ----
(***************************************************************************)
(* restic-health: for every configured (location, backend) pair one task   *)
(* waits for a fresh snapshot and for the repository to be unlocked, then  *)
(* pulls diagnostic data from restic and stores it in timestamped state    *)
(* files with a "latest" symlink per category.  main() runs all tasks      *)
(* concurrently and counts the failures.                                   *)
(***************************************************************************)
EXTENDS Integers, Sequences, FiniteSets, TLC

VARIABLES
    fleet,              \* the configured (location, backend) pairs
    retries,            \* config.retries
    skip_current,       \* args.skip_current of the current run
    now,                \* the clock, in the resolution of the file names
    snaps,              \* per pair: the snapshots ever made, oldest first
    forgotten,          \* per pair: how many of the oldest "restic forget" removed
    lockst,             \* per pair: lock id -> "none" | "held" | "stale"
    files,              \* state directory -> (file name -> content)
    link,               \* state directory -> (category -> target file name)
    pc,                 \* per pair: where its handle_repo task stands
    retries_remaining,  \* per pair: the local of the running wait loop
    locks,              \* per pair: the local lock listing
    raw_snapshots,      \* per pair: the local raw snapshot listing
    snapshots,          \* per pair: the local parsed snapshot list
    err,                \* per pair: the exception that ended the task
    log,                \* per pair: restic calls and state-file writes of this run
    completed,          \* tasks in completion order (asyncio.as_completed)
    ncollected,         \* how many of them main() has awaited
    fails,              \* main()'s counter
    mainpc,             \* "collecting" | "exited"
    exit_code,          \* the process's exit status once exited
    reported,           \* the failure count logged at exit (-1: none logged)
    run,                \* number of the current process run
    prev,               \* per pair: its task's final state in the previous run
    files0,             \* files at the start of the current run
    link0,              \* link at the start of the current run
    persisted,          \* directory -> category -> the persist calls so far
    exit_snaps          \* per pair: the snapshot listing when the previous run exited

vars == << fleet, retries, skip_current, now, snaps, forgotten, lockst, files, link, pc,
           retries_remaining, locks, raw_snapshots, snapshots, err, log,
           completed, ncollected, fails, mainpc, exit_code, reported, run,
           prev, files0, link0, persisted, exit_snaps >>

cfgVars  == << fleet, retries >>
envVars  == << now, snaps, forgotten, lockst >>
fsVars   == << files, link, persisted >>
mainVars == << completed, ncollected, fails, mainpc, exit_code, reported >>
runVars  == << run, prev, files0, link0, skip_current, exit_snaps >>

-----------------------------------------------------------------------------
(* Bounds of the model *)

MaxRetries == 2     \* config.retries ranges over 0..MaxRetries
MaxTime    == 3     \* the clock runs from 0 to MaxTime ticks
TicksPerSec == 2    \* clock ticks in one second, the resolution of the file names
MaxSnaps   == 3     \* snapshots a repository ever holds
MaxRuns    == 2     \* process runs in a row
MaxLag     == 1     \* how long before it shows in the listing a backup may have ended

-----------------------------------------------------------------------------
(* Configuration *)

Home == [location |-> "home", backend |-> "nas"]
Work == [location |-> "work", backend |-> "nas"]
Mail == [location |-> "mail", backend |-> "b2"]

\* Two pairs whose names contain the separator of the directory name.
Joined == [location |-> "a@b", backend |-> "c"]
Split  == [location |-> "a", backend |-> "b@c"]

LockIds == {"L1", "L2"}

Categories == {"raw-snapshots", "snapshot-count",
               "raw-stats-restore-size-latest", "raw-diff-stats-latest"}

\* f'{location.name}@{backend.name}'
StateDir(p) == p.location \o "@" \o p.backend

EmptyFn == [x \in {} |-> 0]

-----------------------------------------------------------------------------
(* Pure helpers *)

Last(s) == s[Len(s)]

RECURSIVE SetToSeq(_)
SetToSeq(S) ==
    IF S = {} THEN <<>>
    ELSE LET x == CHOOSE y \in S : TRUE IN <<x>> \o SetToSeq(S \ {x})

\* Mutant: snapshots[:2], the two oldest.
FirstTwo(s) == IF Len(s) <= 2 THEN s ELSE SubSeq(s, 1, 2)

\* snapshots[-2:]
LastTwo(s) == IF Len(s) <= 2 THEN s ELSE SubSeq(s, Len(s) - 1, Len(s))

\* list(map(itemgetter('id'), s))
Ids(s) == [i \in 1..Len(s) |-> s[i].id]

\* datetime.min, without a time zone
datetime_min == [t |-> -1, aware |-> FALSE]

\* Mutant: >= for >.
GreaterOrEqual(a, b) ==
    IF a.aware # b.aware THEN [exc |-> "TypeError", value |-> FALSE]
    ELSE [exc |-> "none", value |-> a.t >= b.t]

\* A datetime comparison: naive against aware raises TypeError.
Greater(a, b) ==
    IF a.aware # b.aware THEN [exc |-> "TypeError", value |-> FALSE]
    ELSE [exc |-> "none", value |-> a.t > b.t]

-----------------------------------------------------------------------------
(* The state directory *)

\* now.strftime("%Y-%m-%d-%s"): the date and the epoch second
time_str(t) == t \div TicksPerSec

\* f'{category}-{time_str}.json'
FileName(category, t) == << category, time_str(t) >>

IsSymlink(d, category) == d \in DOMAIN link /\ category \in DOMAIN link[d]

\* base_dir.mkdir(parents=True, exist_ok=True) on a file system fs
Mkdir(fs, d) == IF d \in DOMAIN fs THEN fs ELSE (d :> EmptyFn) @@ fs

\* file_path.write_text(content) at time t: creates the file or replaces its
\* content
WriteText(fs, d, name, content, t) ==
    [fs EXCEPT ![d] = (name :> [content |-> content, mtime |-> t]) @@ fs[d]]

\* os.remove(latest_link)
RemoveLink(lk, d, category) ==
    [lk EXCEPT ![d] = [c \in (DOMAIN lk[d]) \ {category} |-> lk[d][c]]]

\* latest_link.symlink_to(...)
SymlinkTo(lk, d, category, name) ==
    [lk EXCEPT ![d] = (category :> name) @@ lk[d]]

\* What the latest pointer of a category resolves to (it must be a symlink).
Resolve(d, category) == files[d][link[d][category]]

\* write_state_file on the store st = [files, link, persisted], at time t
write_state_file(st, p, category, content, t) ==
    LET d     == StateDir(p)
        name  == FileName(category, t)
        f1    == WriteText(Mkdir(st.files, d), d, name, content, t)
        l0    == Mkdir(st.link, d)
        l1    == IF category \in DOMAIN l0[d] THEN RemoveLink(l0, d, category)
                 ELSE l0
        l2    == SymlinkTo(l1, d, category, name)
        h0    == Mkdir(st.persisted, d)
        sofar == IF category \in DOMAIN h0[d] THEN h0[d][category] ELSE <<>>
        call  == [name |-> name, content |-> content]
    IN  [files     |-> f1,
         link      |-> l2,
         persisted |-> [h0 EXCEPT ![d] = (category :> Append(sofar, call)) @@ h0[d]]]

Store == [files |-> files, link |-> link, persisted |-> persisted]

SetStore(st) ==
    /\ files' = st.files
    /\ link' = st.link
    /\ persisted' = st.persisted

-----------------------------------------------------------------------------
(* restic, the external tool *)

LocksOf(p) == {l \in LockIds : lockst[p][l] # "none"}

\* The snapshots the repository holds, oldest first.
Listing(p) == SubSeq(snaps[p], forgotten[p] + 1, Len(snaps[p]))

\* What restic may print for a call that exits 0.
ResticOutputs(p, args) ==
    CASE args[1] = "snapshots" -> {Listing(p)}
      [] args[1] = "unlock"    -> {<<>>}
      [] args[1] = "list"      -> {SetToSeq(LocksOf(p))}
      [] args[1] = "cat"       -> IF args[3] \in LocksOf(p)
                                  THEN {<<[lock |-> args[3], state |-> lockst[p][args[3]]]>>}
                                  ELSE {}
      [] args[1] = "stats"     -> IF Listing(p) = <<>> THEN {}
                                  ELSE {<<[total_of |-> Last(Listing(p)).id]>>}
      [] args[1] = "diff"      -> IF {args[2], args[3]} \subseteq
                                        {Listing(p)[i].id : i \in 1..Len(Listing(p))}
                                  THEN {<<>>,
                                        <<[changed |-> args[3]],
                                          [statistics |-> <<args[2], args[3]>>]>>}
                                  ELSE {}

\* restic(backend, location, args): the results the call may have.  A non-zero
\* exit status raises ResticHealthError in the caller.
restic(p, args) ==
    {[rc |-> 0, stdout |-> o] : o \in ResticOutputs(p, args)}
        \cup {[rc |-> 1, stdout |-> <<>>]}

\* "restic unlock" removes the stale locks only.
Unlocked(ls) == [l \in LockIds |-> IF ls[l] = "stale" THEN "none" ELSE ls[l]]

-----------------------------------------------------------------------------
(* Freshness *)

get_latest_snapshot_timestamp(r) ==
    IF Len(r.stdout) = 0 THEN datetime_min
    ELSE [t |-> Last(r.stdout).backup_end, aware |-> TRUE]

get_latest_statefile_timestamp(p) ==
    IF ~IsSymlink(StateDir(p), "raw-snapshots") THEN [t |-> -1, aware |-> TRUE]
    ELSE [t |-> Resolve(StateDir(p), "raw-snapshots").mtime, aware |-> TRUE]

\* has_fresh_snapshot given the result r of the snapshot listing
has_fresh_snapshot(p, r) ==
    IF r.rc # 0 THEN [exc |-> "ResticHealthError", value |-> FALSE]
    ELSE Greater(get_latest_snapshot_timestamp(r),
                 get_latest_statefile_timestamp(p))

-----------------------------------------------------------------------------
(* The handle_repo task of pair p *)

Terminal == {"Done", "Skipped", "Failed", "Crashed", "Cancelled"}

Running(p) == mainpc = "collecting" /\ pc[p] \notin Terminal

\* The log of a run: a restic call, with its exit status and what the caller
\* made of its output, or a write_state_file call.
CallEntry(step, args, r, result) ==
    [step |-> step, op |-> "restic", args |-> args, rc |-> r.rc, result |-> result]
WriteEntry(category) ==
    [step |-> "Collect", op |-> "write", args |-> <<category>>, rc |-> 0,
     result |-> "written"]

Logged(p, entries) == log' = [log EXCEPT ![p] = @ \o entries]

\* The task goes on to the await point `to`.
Goto(p, to) ==
    /\ pc' = [pc EXCEPT ![p] = to]
    /\ UNCHANGED << err, completed >>

\* The task ends: it returns ("Done", "Skipped") or an exception leaves it
\* ("Failed": ResticHealthError, "Crashed": any other exception).
Ends(p, state, e) ==
    /\ pc' = [pc EXCEPT ![p] = state]
    /\ err' = [err EXCEPT ![p] = e]
    /\ completed' = Append(completed, p)

\* What a freshness check came to, for the log.
Outcome(has_fresh) ==
    IF has_fresh.exc # "none" THEN has_fresh.exc
    ELSE IF has_fresh.value THEN "fresh" ELSE "not fresh"

\* Mutant: gives up while one retry is left.
GivesUpEarly(p) == retries_remaining[p] <= 1

\* "if retries_remaining == 0" of both wait loops
NoRetriesLeft(p) == retries_remaining[p] = 0

\* Mutant: a retry lists the locks without clearing the stale ones first.
RetryWithoutClearing == "ListLocks"

\* Where wait_until_unlocked goes on after its sleep: the head of the loop
NextLockAttempt == "Unlock"

\* Mutant: a fresh repository is collected from without waiting for its locks.
StraightToCollect == "GetSnapshots"

\* Where handle_repo goes on after a fresh check
AfterFresh == "Unlock"

\* handle_repo with --skip-current: one freshness check, no loop
SkipCurrentCheck(p) ==
    /\ Running(p) /\ pc[p] = "AwaitFresh" /\ skip_current
    /\ \E r \in restic(p, <<"snapshots">>) :
         LET has_fresh == has_fresh_snapshot(p, r) IN
         /\ Logged(p, <<CallEntry("AwaitFresh", <<"snapshots">>, r, Outcome(has_fresh))>>)
         /\ CASE has_fresh.exc = "ResticHealthError" -> Ends(p, "Failed", "restic")
              [] has_fresh.exc = "TypeError"         -> Ends(p, "Crashed", "TypeError")
              [] OTHER -> IF has_fresh.value THEN Goto(p, AfterFresh)
                          ELSE Ends(p, "Skipped", "none")
    /\ UNCHANGED << cfgVars, envVars, fsVars, runVars, retries_remaining, locks,
                    raw_snapshots, snapshots, ncollected, fails, mainpc,
                    exit_code, reported >>

\* One iteration of wait_until_fresh_snapshot (the sleep that ends it included)
WaitUntilFreshSnapshot(p) ==
    /\ Running(p) /\ pc[p] = "AwaitFresh" /\ ~skip_current
    /\ \E r \in restic(p, <<"snapshots">>) :
         LET has_fresh == has_fresh_snapshot(p, r) IN
         /\ Logged(p, <<CallEntry("AwaitFresh", <<"snapshots">>, r, Outcome(has_fresh))>>)
         /\ CASE has_fresh.exc = "ResticHealthError" ->
                   Ends(p, "Failed", "restic") /\ UNCHANGED retries_remaining
              [] has_fresh.exc = "TypeError" ->
                   Ends(p, "Crashed", "TypeError") /\ UNCHANGED retries_remaining
              [] OTHER ->
                   IF has_fresh.value
                   THEN \* wait_until_unlocked starts: retries_remaining = config.retries
                        /\ Goto(p, AfterFresh)
                        /\ retries_remaining' = [retries_remaining EXCEPT ![p] = retries]
                   ELSE IF NoRetriesLeft(p)
                        THEN Ends(p, "Failed", "stale") /\ UNCHANGED retries_remaining
                        ELSE /\ Goto(p, "AwaitFresh")
                             /\ retries_remaining' =
                                    [retries_remaining EXCEPT ![p] = @ - 1]
    /\ UNCHANGED << cfgVars, envVars, fsVars, runVars, locks, raw_snapshots,
                    snapshots, ncollected, fails, mainpc, exit_code, reported >>

\* wait_until_unlocked: await unlock(location, backend)
Unlock(p) ==
    /\ Running(p) /\ pc[p] = "Unlock"
    /\ \E r \in restic(p, <<"unlock">>) :
         IF r.rc # 0
         THEN /\ Logged(p, <<CallEntry("AwaitUnlocked", <<"unlock">>, r, "failed")>>)
              /\ Ends(p, "Failed", "restic")
              /\ UNCHANGED lockst
         ELSE /\ Logged(p, <<CallEntry("AwaitUnlocked", <<"unlock">>, r, "cleared")>>)
              /\ Goto(p, "ListLocks")
              /\ lockst' = [lockst EXCEPT ![p] = Unlocked(@)]
    /\ UNCHANGED << cfgVars, now, snaps, forgotten, fsVars, runVars,
                    retries_remaining, locks, raw_snapshots, snapshots,
                    ncollected, fails, mainpc, exit_code, reported >>

\* wait_until_unlocked: locks = await get_locks(...) and what follows up to the
\* next await
GetLocks(p) ==
    /\ Running(p) /\ pc[p] = "ListLocks"
    /\ \E r \in restic(p, <<"list", "locks">>) :
         IF r.rc # 0
         THEN /\ Logged(p, <<CallEntry("AwaitUnlocked", <<"list", "locks">>, r, "failed")>>)
              /\ Ends(p, "Failed", "restic")
              /\ UNCHANGED << locks, retries_remaining >>
         ELSE /\ locks' = [locks EXCEPT ![p] = r.stdout]
              /\ IF Len(r.stdout) > 0
                 THEN /\ Logged(p, <<CallEntry("AwaitUnlocked", <<"list", "locks">>,
                                               r, "locked")>>)
                      /\ IF NoRetriesLeft(p)
                         THEN Goto(p, "DumpLocks") /\ UNCHANGED retries_remaining
                         ELSE /\ Goto(p, NextLockAttempt)
                              /\ retries_remaining' =
                                     [retries_remaining EXCEPT ![p] = @ - 1]
                 ELSE /\ Logged(p, <<CallEntry("AwaitUnlocked", <<"list", "locks">>,
                                               r, "unlocked")>>)
                      /\ Goto(p, "GetSnapshots")
                      /\ UNCHANGED retries_remaining
    /\ UNCHANGED << cfgVars, envVars, fsVars, runVars, raw_snapshots, snapshots,
                    ncollected, fails, mainpc, exit_code, reported >>

\* Mutant: the dump loop reads the last lock of the listing only.
LastLockOnly(p) == Len(locks[p]) - 1

\* The locks already dumped by the "for lock in locks" loop
Dumped(p) ==
    Len(SelectSeq(log[p], LAMBDA e : e.args[1] = "cat" /\ e.rc = 0))

\* wait_until_unlocked: one "restic cat lock" of the dump loop; after the last
\* one ResticHealthError is raised
CatLock(p) ==
    /\ Running(p) /\ pc[p] = "DumpLocks"
    /\ LET lock == locks[p][Dumped(p) + 1]
           args == <<"cat", "lock", lock>>
       IN
       \E r \in restic(p, args) :
         IF r.rc # 0
         THEN /\ Logged(p, <<CallEntry("AwaitUnlocked", args, r, "failed")>>)
              /\ Ends(p, "Failed", "restic")
         ELSE /\ Logged(p, <<CallEntry("AwaitUnlocked", args, r, "printed")>>)
              /\ IF Dumped(p) + 1 = Len(locks[p]) THEN Ends(p, "Failed", "locked")
                 ELSE Goto(p, "DumpLocks")
    /\ UNCHANGED << cfgVars, envVars, fsVars, runVars, retries_remaining, locks,
                    raw_snapshots, snapshots, ncollected, fails, mainpc,
                    exit_code, reported >>

\* handle_repo: raw_snapshots = await get_snapshots(...); restic reads the
\* repository here, the task goes on when the process has exited
GetSnapshots(p) ==
    /\ Running(p) /\ pc[p] = "GetSnapshots"
    /\ \E r \in restic(p, <<"snapshots">>) :
         IF r.rc # 0
         THEN /\ Logged(p, <<CallEntry("Collect", <<"snapshots">>, r, "failed")>>)
              /\ Ends(p, "Failed", "restic")
              /\ UNCHANGED raw_snapshots
         ELSE /\ Logged(p, <<CallEntry("Collect", <<"snapshots">>, r, "listed")>>)
              /\ Goto(p, "PersistSnapshots")
              /\ raw_snapshots' = [raw_snapshots EXCEPT ![p] = r.stdout]
    /\ UNCHANGED << cfgVars, envVars, fsVars, runVars, retries_remaining, locks,
                    snapshots, ncollected, fails, mainpc, exit_code, reported >>

\* Mutant: off by one.
SnapshotCountPlusOne(parsed) == [snapshot_count |-> Len(parsed) + 1]

\* json.dumps({'snapshot_count': len(snapshots)})
SnapshotCount(parsed) == [snapshot_count |-> Len(parsed)]

\* "if len(snapshots) >= 1" and "if len(snapshots) >= 2"
WantsStats(parsed) == Len(parsed) >= 1
WantsDiff(parsed) == Len(parsed) >= 2

\* handle_repo lines 247-252: the two writes that follow the listing
PersistSnapshots(p) ==
    /\ Running(p) /\ pc[p] = "PersistSnapshots"
    /\ LET st1 == write_state_file(Store, p, "raw-snapshots", raw_snapshots[p], now)
           parsed == raw_snapshots[p]
           st2 == write_state_file(st1, p, "snapshot-count", SnapshotCount(parsed), now)
       IN  /\ SetStore(st2)
           /\ snapshots' = [snapshots EXCEPT ![p] = parsed]
           /\ Logged(p, <<WriteEntry("raw-snapshots"), WriteEntry("snapshot-count")>>)
           /\ IF WantsStats(parsed) THEN Goto(p, "GetStats")
              ELSE IF WantsDiff(parsed) THEN Goto(p, "GetDiffStats")
              ELSE Ends(p, "Done", "none")
    /\ UNCHANGED << cfgVars, envVars, runVars, retries_remaining, locks,
                    raw_snapshots, ncollected, fails, mainpc, exit_code, reported >>

\* handle_repo line 254: restore-size stats of "latest", and their write
GetStats(p) ==
    /\ Running(p) /\ pc[p] = "GetStats"
    /\ LET args == <<"stats", "--mode", "restore-size", "latest">> IN
       \E r \in restic(p, args) :
         IF r.rc # 0
         THEN /\ Logged(p, <<CallEntry("Collect", args, r, "failed")>>)
              /\ Ends(p, "Failed", "restic")
              /\ UNCHANGED fsVars
         ELSE /\ Logged(p, <<CallEntry("Collect", args, r, "ok"),
                             WriteEntry("raw-stats-restore-size-latest")>>)
              /\ SetStore(write_state_file(Store, p, "raw-stats-restore-size-latest",
                                           r.stdout, now))
              /\ IF WantsDiff(snapshots[p]) THEN Goto(p, "GetDiffStats")
                 ELSE Ends(p, "Done", "none")
    /\ UNCHANGED << cfgVars, envVars, runVars, retries_remaining, locks,
                    raw_snapshots, snapshots, ncollected, fails, mainpc,
                    exit_code, reported >>

\* handle_repo lines 264-268 with get_diff_stats
GetDiffStats(p) ==
    /\ Running(p) /\ pc[p] = "GetDiffStats"
    /\ LET latest_two == Ids(LastTwo(snapshots[p]))
           args == <<"diff">> \o latest_two
       IN
       \E r \in restic(p, args) :
         IF r.rc # 0
         THEN /\ Logged(p, <<CallEntry("Collect", args, r, "failed")>>)
              /\ Ends(p, "Failed", "restic")
              /\ UNCHANGED fsVars
         ELSE IF Len(r.stdout) = 0      \* stdout.splitlines()[-1]
         THEN /\ Logged(p, <<CallEntry("Collect", args, r, "IndexError")>>)
              /\ Ends(p, "Crashed", "IndexError")
              /\ UNCHANGED fsVars
         ELSE /\ Logged(p, <<CallEntry("Collect", args, r, "ok"),
                             WriteEntry("raw-diff-stats-latest")>>)
              /\ SetStore(write_state_file(Store, p, "raw-diff-stats-latest",
                                           Last(r.stdout), now))
              /\ Ends(p, "Done", "none")
    /\ UNCHANGED << cfgVars, envVars, runVars, retries_remaining, locks,
                    raw_snapshots, snapshots, ncollected, fails, mainpc,
                    exit_code, reported >>

-----------------------------------------------------------------------------
(* main() *)

\* The listings of the repositories, as the exiting run leaves them.
Listings == [p \in fleet |-> Listing(p)]

\* One iteration of "for handler in asyncio.as_completed(handlers)".  An
\* exception other than ResticHealthError leaves main(): asyncio.run cancels
\* the tasks still running and the interpreter exits with status 1.
Collect ==
    /\ mainpc = "collecting" /\ ncollected < Len(completed)
    /\ LET handler == completed[ncollected + 1] IN
       /\ ncollected' = ncollected + 1
       /\ IF pc[handler] = "Crashed"
          THEN /\ pc' = [q \in fleet |-> IF pc[q] \in Terminal THEN pc[q]
                                          ELSE "Cancelled"]
               /\ mainpc' = "exited"
               /\ exit_code' = 1
               /\ exit_snaps' = Listings
               /\ UNCHANGED fails
          ELSE /\ fails' = IF pc[handler] = "Failed" THEN fails + 1 ELSE fails
               /\ UNCHANGED << pc, mainpc, exit_code, exit_snaps >>
    /\ UNCHANGED << cfgVars, envVars, fsVars, run, prev, files0, link0,
                    skip_current, retries_remaining, locks, raw_snapshots,
                    snapshots, err, log, completed, reported >>

\* main() lines 283-285, once the loop has seen every handler
Exit ==
    /\ mainpc = "collecting" /\ ncollected = Cardinality(fleet)
    /\ mainpc' = "exited"
    /\ exit_code' = IF fails > 0 THEN 1 ELSE 0
    /\ reported' = IF fails > 0 THEN fails ELSE reported
    /\ exit_snaps' = Listings
    /\ UNCHANGED << cfgVars, envVars, fsVars, run, prev, files0, link0,
                    skip_current, pc, retries_remaining, locks, raw_snapshots,
                    snapshots, err, log, completed, ncollected, fails >>

\* The state main() starts from: one task per pair, created and not yet run.
Started ==
    /\ pc = [p \in fleet |-> "AwaitFresh"]
    /\ retries_remaining = [p \in fleet |-> retries]
    /\ locks = [p \in fleet |-> <<>>]
    /\ raw_snapshots = [p \in fleet |-> <<>>]
    /\ snapshots = [p \in fleet |-> <<>>]
    /\ err = [p \in fleet |-> "none"]
    /\ log = [p \in fleet |-> <<>>]
    /\ completed = <<>>
    /\ ncollected = 0
    /\ fails = 0
    /\ mainpc = "collecting"
    /\ exit_code = -1
    /\ reported = -1

\* The program is run again (cron), with or without --skip-current.
NewRun ==
    /\ mainpc = "exited" /\ run < MaxRuns
    /\ run' = run + 1
    /\ skip_current' \in BOOLEAN
    /\ prev' = pc
    /\ files0' = files
    /\ link0' = link
    /\ pc' = [p \in fleet |-> "AwaitFresh"]
    /\ retries_remaining' = [p \in fleet |-> retries]
    /\ locks' = [p \in fleet |-> <<>>]
    /\ raw_snapshots' = [p \in fleet |-> <<>>]
    /\ snapshots' = [p \in fleet |-> <<>>]
    /\ err' = [p \in fleet |-> "none"]
    /\ log' = [p \in fleet |-> <<>>]
    /\ completed' = <<>>
    /\ ncollected' = 0
    /\ fails' = 0
    /\ mainpc' = "collecting"
    /\ exit_code' = -1
    /\ reported' = -1
    /\ UNCHANGED << cfgVars, envVars, fsVars, exit_snaps >>

-----------------------------------------------------------------------------
(* The environment: the clock, the backups, the lock holders *)

taskVars == << pc, retries_remaining, locks, raw_snapshots, snapshots, err, log >>

Tick ==
    /\ now < MaxTime
    /\ now' = now + 1
    /\ UNCHANGED << cfgVars, snaps, forgotten, lockst, fsVars, runVars, mainVars,
                    taskVars >>

LastEnd(s) == IF s = <<>> THEN 0 ELSE Last(s).backup_end

\* A backup that ended at backup_end shows up in the repository.
NewSnapshot(p) ==
    /\ Len(snaps[p]) < MaxSnaps
    /\ \E lag \in 0..MaxLag :
         /\ now - lag >= LastEnd(snaps[p])
         /\ snaps' = [snaps EXCEPT ![p] =
                Append(@, [id |-> Len(@) + 1, backup_end |-> now - lag])]
    /\ UNCHANGED << cfgVars, now, forgotten, lockst, fsVars, runVars, mainVars,
                    taskVars >>

\* "restic forget" removes the oldest snapshot the repository holds.
ForgetSnapshot(p) ==
    /\ forgotten[p] < Len(snaps[p])
    /\ forgotten' = [forgotten EXCEPT ![p] = @ + 1]
    /\ UNCHANGED << cfgVars, now, snaps, lockst, fsVars, runVars, mainVars,
                    taskVars >>

\* A lock is taken, released, or left behind by a holder that died.
LockChange(p) ==
    /\ \E l \in LockIds :
         \E to \in (CASE lockst[p][l] = "none" -> {"held"}
                      [] lockst[p][l] = "held" -> {"none", "stale"}
                      [] OTHER -> {}) :
            lockst' = [lockst EXCEPT ![p][l] = to]
    /\ UNCHANGED << cfgVars, now, snaps, forgotten, fsVars, runVars, mainVars,
                    taskVars >>

-----------------------------------------------------------------------------
(* Specifications *)

Handle(p) ==
    \/ SkipCurrentCheck(p)
    \/ WaitUntilFreshSnapshot(p)
    \/ Unlock(p)
    \/ GetLocks(p)
    \/ CatLock(p)
    \/ GetSnapshots(p)
    \/ PersistSnapshots(p)
    \/ GetStats(p)
    \/ GetDiffStats(p)

\* Snapshot lists of n snapshots that all ended by time 0.
Existing(n) == [i \in 1..n |-> [id |-> i, backup_end |-> 0]]

NoLocks == [l \in LockIds |-> "none"]
Held(l) == [NoLocks EXCEPT ![l] = "held"]

\* An empty state directory and the first run's tasks.
FirstRun ==
    /\ files = EmptyFn
    /\ link = EmptyFn
    /\ persisted = EmptyFn
    /\ files0 = files
    /\ link0 = link
    /\ run = 1
    /\ prev = [p \in fleet |-> "none"]
    /\ exit_snaps = [p \in fleet |-> <<>>]
    /\ forgotten = [p \in fleet |-> 0]
    /\ Started

\* One pair over several runs of the program; backups are made while it runs
\* and between its runs; a lock, if there is one, stays.
Init ==
    /\ fleet = {Home}
    /\ retries \in 0..MaxRetries
    /\ skip_current \in BOOLEAN
    /\ now = 0
    /\ snaps \in [fleet -> {Existing(n) : n \in 0..1}]
    /\ lockst \in [fleet -> {NoLocks, Held("L1")}]
    /\ FirstRun

Next ==
    \/ \E p \in fleet : Handle(p)
    \/ Collect
    \/ Exit
    \/ NewRun
    \/ Tick
    \/ \E p \in fleet : NewSnapshot(p)

Spec == Init /\ [][Next]_vars

\* One pair in one run over a repository whose snapshots come and go.
InitCollect ==
    /\ fleet = {Home}
    /\ retries \in 0..MaxRetries
    /\ skip_current \in BOOLEAN
    /\ now = 0
    /\ snaps \in [fleet -> {Existing(n) : n \in 0..MaxSnaps}]
    /\ lockst = [p \in fleet |-> NoLocks]
    /\ FirstRun

NextCollect ==
    \/ \E p \in fleet : Handle(p)
    \/ Collect
    \/ Exit
    \/ Tick
    \/ \E p \in fleet : NewSnapshot(p)
    \/ \E p \in fleet : ForgetSnapshot(p)

SpecCollect == InitCollect /\ [][NextCollect]_vars

\* One pair in one run, with lock holders that come and go.
InitLocks ==
    /\ fleet = {Home}
    /\ retries \in 0..MaxRetries
    /\ skip_current \in BOOLEAN
    /\ now = 0
    /\ snaps \in [fleet -> {Existing(n) : n \in 1..2}]
    /\ lockst = [p \in fleet |-> NoLocks]
    /\ FirstRun

NextLocks ==
    \/ \E p \in fleet : Handle(p)
    \/ Collect
    \/ Exit
    \/ \E p \in fleet : LockChange(p)

SpecLocks == InitLocks /\ [][NextLocks]_vars

\* A fleet of two pairs over repositories that do not change during the run.
InitFleet ==
    /\ fleet = {Home, Work}
    /\ retries \in 0..1
    /\ skip_current \in BOOLEAN
    /\ now = 0
    /\ snaps \in [fleet -> {Existing(n) : n \in 0..2}]
    /\ lockst \in [fleet -> {NoLocks, Held("L1")}]
    /\ FirstRun

NextFleet ==
    \/ \E p \in fleet : Handle(p)
    \/ Collect
    \/ Exit

SpecFleet == InitFleet /\ [][NextFleet]_vars

-----------------------------------------------------------------------------
(* Writes that do not complete *)

\* write_state_file cut short after k of its steps, by an OSError or by the
\* death of the process: after mkdir (k = 0), after write_text (k = 1), after
\* os.remove of the old link (k = 2).  symlink_to is never reached.
CutWrite(st, p, category, content, t, k) ==
    LET d    == StateDir(p)
        name == FileName(category, t)
        f0   == Mkdir(st.files, d)
        l0   == Mkdir(st.link, d)
    IN  [files     |-> IF k >= 1 THEN WriteText(f0, d, name, content, t) ELSE f0,
         link      |-> IF k >= 2 /\ category \in DOMAIN l0[d]
                       THEN RemoveLink(l0, d, category) ELSE l0,
         persisted |-> st.persisted]

FailedWrite(category) ==
    [step |-> "Collect", op |-> "write", args |-> <<category>>, rc |-> 1,
     result |-> "OSError"]

\* The write of `content` to `category` on the store st, after the calls
\* `pre` of the same step, does not complete.  An OSError leaves the task as an
\* exception that is not a ResticHealthError; a killed process ends every task.
Cut(p, pre, st, category, content, parsed) ==
    \E k \in 0..2 : \E how \in {"OSError", "killed"} :
        /\ SetStore(CutWrite(st, p, category, content, now, k))
        /\ snapshots' = [snapshots EXCEPT ![p] = parsed]
        /\ Logged(p, pre \o <<FailedWrite(category)>>)
        /\ IF how = "OSError"
           THEN /\ Ends(p, "Crashed", "OSError")
                /\ UNCHANGED << mainpc, exit_code, exit_snaps >>
           ELSE /\ pc' = [q \in fleet |-> IF pc[q] \in Terminal THEN pc[q]
                                           ELSE "Cancelled"]
                /\ err' = [err EXCEPT ![p] = "killed"]
                /\ mainpc' = "exited"
                /\ exit_code' = 137
                /\ exit_snaps' = Listings
                /\ UNCHANGED completed

\* One of the four write_state_file calls of handle_repo (lines 247-268) does
\* not complete.
Interrupted(p) ==
    /\ Running(p)
    /\ \/ /\ pc[p] = "PersistSnapshots"
          /\ \/ Cut(p, <<>>, Store, "raw-snapshots", raw_snapshots[p], snapshots[p])
             \/ Cut(p, <<WriteEntry("raw-snapshots")>>,
                    write_state_file(Store, p, "raw-snapshots", raw_snapshots[p], now),
                    "snapshot-count", SnapshotCount(raw_snapshots[p]),
                    raw_snapshots[p])
       \/ /\ pc[p] = "GetStats"
          /\ LET args == <<"stats", "--mode", "restore-size", "latest">> IN
             \E r \in restic(p, args) :
                /\ r.rc = 0
                /\ Cut(p, <<CallEntry("Collect", args, r, "ok")>>, Store,
                       "raw-stats-restore-size-latest", r.stdout, snapshots[p])
       \/ /\ pc[p] = "GetDiffStats"
          /\ LET args == <<"diff">> \o Ids(LastTwo(snapshots[p])) IN
             \E r \in restic(p, args) :
                /\ r.rc = 0 /\ Len(r.stdout) > 0
                /\ Cut(p, <<CallEntry("Collect", args, r, "ok")>>, Store,
                       "raw-diff-stats-latest", Last(r.stdout), snapshots[p])
    /\ UNCHANGED << cfgVars, envVars, run, prev, files0, link0, skip_current,
                    retries_remaining, locks, raw_snapshots, ncollected, fails,
                    reported >>

\* One pair over several runs whose writes may fail or be interrupted.
InitPersist ==
    /\ fleet = {Home}
    /\ retries = 0
    /\ skip_current \in BOOLEAN
    /\ now = 0
    /\ snaps \in [fleet -> {Existing(n) : n \in 1..2}]
    /\ lockst = [p \in fleet |-> NoLocks]
    /\ FirstRun

NextPersist ==
    \/ \E p \in fleet : Handle(p)
    \/ \E p \in fleet : Interrupted(p)
    \/ Collect
    \/ Exit
    \/ NewRun
    \/ Tick
    \/ \E p \in fleet : NewSnapshot(p)

SpecPersist == InitPersist /\ [][NextPersist]_vars

\* Two pairs in one run; the names of locations and backends are the keys of
\* the YAML configuration, any strings.
InitNames ==
    /\ fleet \in {{Home, Mail}, {Joined, Split}}
    /\ retries = 0
    /\ skip_current \in BOOLEAN
    /\ now = 0
    /\ snaps \in [fleet -> {Existing(n) : n \in 1..2}]
    /\ lockst = [p \in fleet |-> NoLocks]
    /\ FirstRun

SpecNames == InitNames /\ [][NextFleet]_vars

\* The pairs of the configurations above.
Pairs == {Home, Work, Mail, Joined, Split}

\* The event loop runs every task that can go on, and main(): every restic
\* call and every sleep returns.  Nothing is assumed of the clock, the
\* backups, or the next run of the program.
Fairness ==
    /\ \A p \in Pairs : WF_vars(p \in fleet /\ Handle(p))
    /\ WF_vars(Collect)
    /\ WF_vars(Exit)

SpecLive == Init /\ [][Next]_vars /\ Fairness

-----------------------------------------------------------------------------
(* Reading the log of a run *)

IsObservation(e) == e.step = "AwaitFresh"
IsUnlock(e)      == e.args[1] = "unlock"
IsListing(e)     == e.args[1] = "list"
IsWrite(e)       == e.op = "write"
IsCollectStep(e) == e.step = "Collect"

\* The task ended by returning or by raising, not by being cancelled.
Ended(p) == pc[p] \in {"Done", "Skipped", "Failed", "Crashed"}

\* The tasks that ended with an exception.
Raised == {p \in fleet : pc[p] \in {"Failed", "Crashed"}}

-----------------------------------------------------------------------------
(* C1: the fleet run decides its result only after every orchestration has   *)
(* completed; the failure count it reports is the number of orchestrations   *)
(* that ended with an error, and it exits 0 iff that number is zero, else 1; *)
(* skipped pairs count as successes.                                         *)
C1_FleetResult ==
    mainpc = "exited" =>
        /\ \A p \in fleet : Ended(p)
        /\ ncollected = Cardinality(fleet)
        /\ fails = Cardinality(Raised)
        /\ exit_code = IF Cardinality(Raised) = 0 THEN 0 ELSE 1
        /\ reported = IF Cardinality(Raised) = 0 THEN -1 ELSE Cardinality(Raised)

\* What does hold of main(): ResticHealthError is counted exactly, and the
\* exit status is 0 only if every task returned.
C1_CountsResticHealthError ==
    mainpc = "exited" =>
        /\ (\A p \in fleet : pc[p] # "Crashed") =>
              /\ \A p \in fleet : Ended(p)
              /\ fails = Cardinality({p \in fleet : pc[p] = "Failed"})
              /\ exit_code = IF fails = 0 THEN 0 ELSE 1
              /\ reported = IF fails = 0 THEN -1 ELSE fails
        /\ exit_code = 0 => \A p \in fleet : pc[p] \in {"Done", "Skipped"}

-----------------------------------------------------------------------------
(* C2: every error raised while orchestrating a pair becomes a Failed        *)
(* outcome of that pair; none leaves the collection loop of main(), which    *)
(* still collects the outcome of every other pair.                           *)
C2_ErrorsBecomeFailed ==
    /\ \A p \in fleet : pc[p] # "Crashed"
    /\ mainpc = "exited" => ncollected = Cardinality(fleet)

-----------------------------------------------------------------------------
(* C3: a failure in one pair never cancels, blocks or alters the             *)
(* orchestration of another pair: every task runs to its own end, and a pair *)
(* with a fresh, non-empty, unlocked repository whose restic calls succeed   *)
(* ends Done with all four latest pointers written, whatever the other       *)
(* pairs do.                                                                 *)
AllWritten(p) ==
    /\ StateDir(p) \in DOMAIN link
    /\ \A c \in Categories :
         /\ c \in DOMAIN link[StateDir(p)]
         /\ link[StateDir(p)][c] \in DOMAIN files[StateDir(p)]

NoCallFailed(p) ==
    \A i \in 1..Len(log[p]) : log[p][i].rc = 0 /\ log[p][i].result # "IndexError"

C3_Isolation ==
    /\ \A p \in fleet : pc[p] # "Cancelled"
    /\ mainpc = "exited" =>
         \A p \in fleet :
            (Len(Listing(p)) >= 2 /\ LocksOf(p) = {} /\ NoCallFailed(p))
                => pc[p] = "Done" /\ AllWritten(p)

\* What does hold: a pair is cut short only when a task raised something other
\* than ResticHealthError; ResticHealthError in one pair leaves the others alone.
C3_FailedLeavesOthersAlone ==
    /\ (\E p \in fleet : pc[p] = "Cancelled") => (\E q \in fleet : pc[q] = "Crashed")
    /\ (mainpc = "exited" /\ \A q \in fleet : pc[q] # "Crashed") =>
         \A p \in fleet :
            (Len(Listing(p)) >= 2 /\ LocksOf(p) = {} /\ NoCallFailed(p))
                => pc[p] = "Done" /\ AllWritten(p)

-----------------------------------------------------------------------------
(* C4: after N >= 1 successful write_state_file calls for a category, at any *)
(* times, the latest pointer resolves to the Nth payload and the artifacts   *)
(* of the N-1 earlier calls still exist as separate files with their         *)
(* original content.                                                         *)
C4_PointerCorrectness ==
    \A d \in DOMAIN persisted : \A c \in DOMAIN persisted[d] :
        LET calls == persisted[d][c]
            N     == Len(calls)
        IN  /\ Resolve(d, c).content = calls[N].content
            /\ \A i \in 1..(N - 1) :
                 /\ calls[i].name \in DOMAIN files[d]
                 /\ files[d][calls[i].name].content = calls[i].content
                 /\ \A j \in 1..N : j # i => calls[j].name # calls[i].name

\* What does hold: the pointer resolves to the last payload, and an earlier
\* artifact is intact unless a later call fell into the same second.
C4_PointerResolvesToLast ==
    \A d \in DOMAIN persisted : \A c \in DOMAIN persisted[d] :
        LET calls == persisted[d][c]
            N     == Len(calls)
        IN  /\ c \in DOMAIN link[d]
            /\ link[d][c] = calls[N].name
            /\ Resolve(d, c).content = calls[N].content
            /\ \A i \in 1..(N - 1) :
                 (\A j \in (i + 1)..N : calls[j].name # calls[i].name)
                    => /\ calls[i].name \in DOMAIN files[d]
                       /\ files[d][calls[i].name].content = calls[i].content

-----------------------------------------------------------------------------
(* C5: without --skip-current and with retry count R, a freshness gate that  *)
(* never sees a fresh snapshot makes exactly R+1 checks and then fails with  *)
(* the stale-data error, never after fewer and never after more; a fresh     *)
(* check ends the gate at once, with no further check.                       *)
Observations(p) == SelectSeq(log[p], IsObservation)

C5_FreshnessRetryBound ==
    \A p \in fleet : ~skip_current =>
        LET obs == Observations(p)
            n   == Len(obs)
        IN  /\ n <= retries + 1
            /\ \A i \in 1..Len(log[p]) : IsObservation(log[p][i]) => i <= n
            /\ \A i \in 1..(n - 1) : obs[i].result = "not fresh"
            /\ err[p] = "stale" <=>
                  (n = retries + 1 /\ obs[n].result = "not fresh")
            /\ err[p] = "stale" => pc[p] = "Failed"
            /\ (n >= 1 /\ n < retries + 1 /\ obs[n].result = "not fresh")
                  => pc[p] \in {"AwaitFresh", "Cancelled"}
            /\ (n >= 1 /\ obs[n].result = "fresh") => pc[p] # "AwaitFresh"

C5_Witness ==
    \E p \in fleet :
        /\ ~skip_current /\ retries >= 1
        /\ err[p] = "stale"
        /\ Len(Observations(p)) = retries + 1

-----------------------------------------------------------------------------
(* C6: every attempt of the lock gate first clears the stale locks and only  *)
(* then lists the locks; the gate succeeds at the first empty listing; if    *)
(* every listing is non-empty it makes exactly R+1 attempts, R the retry     *)
(* count of the freshness gate, and then fails the pair; no listing is made  *)
(* without a clearance before it in the same attempt.                        *)
LockListings(p) == SelectSeq(log[p], IsListing)

C6_LockGate ==
    \A p \in fleet :
        LET lists == LockListings(p)
            n     == Len(lists)
        IN  /\ \A i \in 1..Len(log[p]) :
                 /\ IsListing(log[p][i]) =>
                       /\ i > 1
                       /\ IsUnlock(log[p][i - 1])
                       /\ log[p][i - 1].rc = 0
                 /\ (IsUnlock(log[p][i]) /\ i > 1 /\ log[p][i - 1].step = "AwaitUnlocked")
                       => /\ IsListing(log[p][i - 1])
                          /\ log[p][i - 1].result = "locked"
                 /\ IsCollectStep(log[p][i]) =>
                       (n >= 1 /\ lists[n].result = "unlocked")
            /\ n <= retries + 1
            /\ \A i \in 1..(n - 1) : lists[i].result = "locked"
            /\ (n >= 1 /\ lists[n].result = "unlocked")
                  => /\ pc[p] \notin {"Unlock", "ListLocks", "DumpLocks"}
                     /\ err[p] # "locked"
            /\ (n >= 1 /\ n < retries + 1 /\ lists[n].result = "locked")
                  => \/ pc[p] \in {"Unlock", "ListLocks", "Cancelled"}
                     \/ pc[p] = "Failed" /\ err[p] = "restic"
            /\ (n = retries + 1 /\ lists[n].result = "locked")
                  => pc[p] \in {"DumpLocks", "Failed", "Cancelled"}
            /\ err[p] = "locked" =>
                  /\ pc[p] = "Failed"
                  /\ n = retries + 1
                  /\ lists[n].result = "locked"

C6_Witness ==
    \E p \in fleet :
        /\ retries >= 1
        /\ err[p] = "locked"
        /\ Len(LockListings(p)) = retries + 1
        /\ Len(SelectSeq(log[p], IsUnlock)) = retries + 1

-----------------------------------------------------------------------------
(* C7: with --skip-current a pair's orchestration makes exactly one          *)
(* freshness check.  If it is not fresh the orchestration ends Skipped, is   *)
(* not counted as a failure and does nothing more: no clearance, no lock     *)
(* listing, no collection call and no artifact or pointer write.  If it is   *)
(* fresh it goes on to the lock gate without a retry loop.                   *)
DirUnchanged(p) ==
    LET d == StateDir(p) IN
    IF d \in DOMAIN files0
    THEN d \in DOMAIN files /\ files[d] = files0[d] /\ link[d] = link0[d]
    ELSE d \notin DOMAIN files /\ d \notin DOMAIN link

C7_SkipMode ==
    \A p \in fleet : skip_current =>
        LET obs == Observations(p)
            n   == Len(obs)
        IN  /\ n <= 1
            /\ pc[p] # "AwaitFresh" => (n = 1 /\ IsObservation(log[p][1]))
            /\ pc[p] = "Skipped" <=> (n = 1 /\ obs[1].result = "not fresh")
            /\ pc[p] = "Skipped" =>
                  /\ Len(log[p]) = 1
                  /\ err[p] = "none"
                  /\ DirUnchanged(p)
                  /\ fails <= Cardinality({q \in fleet : pc[q] = "Failed"})
                  /\ (mainpc = "exited" /\ fleet = {p}) => exit_code = 0
            /\ (n = 1 /\ obs[1].result = "fresh") =>
                  /\ pc[p] \notin {"AwaitFresh", "Skipped"}
                  /\ Len(log[p]) >= 2 => IsUnlock(log[p][2])
                  /\ Len(log[p]) = 1 => pc[p] \in {"Unlock", "Cancelled"}

C7_Witness ==
    \E p \in fleet :
        /\ skip_current /\ run = 2
        /\ pc[p] = "Skipped"
        /\ mainpc = "exited"
        /\ StateDir(p) \in DOMAIN files0
        /\ Len(Listing(p)) >= 1

-----------------------------------------------------------------------------
(* C8, as claimed: if a run of a pair ends Done and the program is run again *)
(* with --skip-current while no new snapshot was produced between the two    *)
(* runs, the second run ends Skipped, writes no artifact and changes no      *)
(* pointer: it never gets past its freshness check.                          *)
StopsAtFreshness(p) ==
    /\ pc[p] \in {"AwaitFresh", "Skipped", "Failed", "Cancelled"}
    /\ pc[p] = "Failed" => (err[p] = "restic" /\ Len(log[p]) = 1)
    /\ (Len(log[p]) >= 1 /\ log[p][1].rc = 0) => pc[p] \in {"Skipped", "Cancelled"}
    /\ DirUnchanged(p)

HoldsPersistedList(p) ==
    LET d == StateDir(p) IN
    /\ d \in DOMAIN link0
    /\ "raw-snapshots" \in DOMAIN link0[d]
    /\ Listing(p) = files0[d][link0[d]["raw-snapshots"]].content

-----------------------------------------------------------------------------
(* C9, as claimed: for a pair whose repository holds no snapshot, a run of   *)
(* the program persists the snapshot list and a count of 0, and persists no  *)
(* restore-size and no diff artifact.                                        *)
Written(p) ==
    IF StateDir(p) \in DOMAIN link THEN DOMAIN link[StateDir(p)] ELSE {}

ListAndZeroCount(p) ==
    /\ Written(p) = {"raw-snapshots", "snapshot-count"}
    /\ Resolve(StateDir(p), "raw-snapshots").content = <<>>
    /\ Resolve(StateDir(p), "snapshot-count").content = [snapshot_count |-> 0]

FetchedList(p) ==
    \E i \in 1..Len(log[p]) :
        /\ IsCollectStep(log[p][i])
        /\ log[p][i].args = <<"snapshots">>
        /\ log[p][i].rc = 0

-----------------------------------------------------------------------------
(* C10: for a fetched snapshot list of length >= 2 the diff is called with   *)
(* exactly two snapshot ids, those of the last two entries of the list in    *)
(* list order; the diff artifact is persisted only for a list of length      *)
(* >= 2, never for one of length 0 or 1.                                     *)
IsDiff(e) == e.op = "restic" /\ e.args[1] = "diff"

Persisted(p) == SelectSeq(log[p], IsWrite)

C10_DiffOfLastTwo ==
    \A p \in fleet :
        LET s == snapshots[p]
            n == Len(s)
        IN  /\ \A i \in 1..Len(log[p]) :
                 /\ IsDiff(log[p][i]) =>
                       /\ n >= 2
                       /\ log[p][i].args = <<"diff", s[n - 1].id, s[n].id>>
                 /\ (IsWrite(log[p][i]) /\ log[p][i].args = <<"raw-diff-stats-latest">>)
                       => /\ n >= 2
                          /\ i > 1
                          /\ IsDiff(log[p][i - 1])
                          /\ log[p][i - 1].rc = 0
            /\ "raw-diff-stats-latest" \in Written(p) => n >= 2
            /\ (pc[p] = "Done" /\ Len(Persisted(p)) >= 1) =>
                  (n >= 2 <=> "raw-diff-stats-latest" \in Written(p))

C10_Witness ==
    \E p \in fleet :
        /\ Len(snapshots[p]) = 3
        /\ pc[p] = "Done"
        /\ "raw-diff-stats-latest" \in Written(p)
        /\ \E i \in 1..Len(log[p]) :
             /\ IsDiff(log[p][i])
             /\ log[p][i].args = <<"diff", snapshots[p][2].id, snapshots[p][3].id>>

-----------------------------------------------------------------------------
(* C11: a failure of a sub-step of Collect (the snapshot listing, a persist, *)
(* the restore-size stats, the diff) ends the pair's workflow as Failed at   *)
(* once: no tool call and no write follows the failing sub-step in this run, *)
(* and the artifacts written earlier in the same Collect stay as they are.   *)
FailedStep(e) ==
    IsCollectStep(e) /\ (e.rc # 0 \/ e.result \in {"IndexError", "OSError"})

WrittenBefore(p, i) ==
    \A j \in 1..(i - 1) :
        (IsWrite(log[p][j]) /\ log[p][j].result = "written") =>
            LET c == log[p][j].args[1] IN
            /\ IsSymlink(StateDir(p), c)
            /\ link[StateDir(p)][c] \in DOMAIN files[StateDir(p)]
            /\ link[StateDir(p)][c][1] = c

C11_CollectFailure ==
    \A p \in fleet : \A i \in 1..Len(log[p]) :
        FailedStep(log[p][i]) =>
            /\ pc[p] = "Failed"
            /\ i = Len(log[p])
            /\ WrittenBefore(p, i)

\* What does hold: a failing sub-step is the last thing the task does, what
\* it wrote before stays, and a failing restic call ends the task as Failed.
C11_NothingAfterFailure ==
    \A p \in fleet : \A i \in 1..Len(log[p]) :
        FailedStep(log[p][i]) =>
            /\ pc[p] \in {"Failed", "Crashed", "Cancelled"}
            /\ (log[p][i].op = "restic" /\ log[p][i].rc # 0) =>
                  (pc[p] = "Failed" /\ err[p] = "restic")
            /\ i = Len(log[p])
            /\ WrittenBefore(p, i)

-----------------------------------------------------------------------------
(* C12, as claimed: whenever the lock gate fails after exhausting its        *)
(* retries, the contents of every lock of the final attempt's listing have   *)
(* been read and surfaced before the pair is failed, also when a lock        *)
(* disappears or a read fails between the listing and the read.              *)
IsCat(e) == e.op = "restic" /\ e.args[1] = "cat"

\* The locks whose contents were printed, in the order of the reads.
Surfaced(p) ==
    LET cats == SelectSeq(log[p], LAMBDA e : IsCat(e) /\ e.result = "printed")
    IN  [i \in 1..Len(cats) |-> cats[i].args[3]]

Exhausted(p) ==
    LET lists == LockListings(p) IN
    /\ Len(lists) = retries + 1
    /\ Last(lists).result = "locked"

C12_Original ==
    \A p \in fleet :
        (Exhausted(p) /\ pc[p] = "Failed") => Surfaced(p) = locks[p]

(* C12, amended: whenever the lock gate fails with the still-locked error,   *)
(* it has read and surfaced the contents of exactly the locks of the final   *)
(* attempt's listing, in listing order.  A read that fails, as it does when  *)
(* the lock disappeared after the listing, fails the pair at once with the   *)
(* tool's error: the locks read so far are a prefix of the listing and the   *)
(* rest is not read.                                                         *)
C12_LockDiagnostics ==
    \A p \in fleet :
        LET done == Surfaced(p) IN
        /\ Len(done) <= Len(locks[p])
        /\ done = SubSeq(locks[p], 1, Len(done))
        /\ Len(done) >= 1 => Exhausted(p)
        /\ err[p] = "locked" => (done = locks[p] /\ Len(done) >= 1)
        /\ \A i \in 1..Len(log[p]) :
             (IsCat(log[p][i]) /\ log[p][i].rc # 0) =>
                /\ i = Len(log[p])
                /\ pc[p] = "Failed" /\ err[p] = "restic"
                /\ log[p][i].args[3] = locks[p][Len(done) + 1]

C12_Witness ==
    \E p \in fleet :
        /\ err[p] = "locked"
        /\ Len(locks[p]) = 2
        /\ Surfaced(p) = locks[p]
        /\ LocksOf(p) # {locks[p][i] : i \in 1..2}

-----------------------------------------------------------------------------
(* C13: within one pair the steps are strictly sequential, in the order      *)
(* AwaitFresh, AwaitUnlocked, Collect, Done: no clearance and no lock        *)
(* listing before the freshness gate succeeded, no Collect call or write     *)
(* before a lock listing came back empty, the sub-steps of Collect in the    *)
(* order snapshot list, snapshot count, restore-size stats, diff stats, Done *)
(* only after the last applicable write; and the only terminal states are    *)
(* Done, Failed and Skipped.                                                 *)
StepRank(e) ==
    CASE e.step = "AwaitFresh"    -> 1
      [] e.step = "AwaitUnlocked" -> 2
      [] e.step = "Collect"       -> 3

SubStepRank(e) ==
    CASE e.args[1] = "snapshots"                     -> 1
      [] e.args[1] = "raw-snapshots"                 -> 2
      [] e.args[1] = "snapshot-count"                -> 3
      [] e.args[1] = "stats"                         -> 4
      [] e.args[1] = "raw-stats-restore-size-latest" -> 5
      [] e.args[1] = "diff"                          -> 6
      [] e.args[1] = "raw-diff-stats-latest"         -> 7

\* The last write that applies to a snapshot list of length n.
LastApplicable(n) ==
    IF n >= 2 THEN "raw-diff-stats-latest"
    ELSE IF n = 1 THEN "raw-stats-restore-size-latest"
    ELSE "snapshot-count"

C13_Order ==
    \A p \in fleet :
        /\ \A i \in 1..Len(log[p]) : \A j \in (i + 1)..Len(log[p]) :
             /\ StepRank(log[p][i]) <= StepRank(log[p][j])
             /\ (StepRank(log[p][i]) = 1 /\ StepRank(log[p][j]) >= 2) =>
                    (log[p][i].result = "fresh" <=>
                        StepRank(log[p][i + 1]) = 2)
             /\ (IsCollectStep(log[p][i]) /\ IsCollectStep(log[p][j])) =>
                    SubStepRank(log[p][i]) < SubStepRank(log[p][j])
        /\ \A j \in 1..Len(log[p]) :
             /\ StepRank(log[p][j]) = 2 =>
                  \E i \in 1..(j - 1) : log[p][i].result = "fresh"
             /\ StepRank(log[p][j]) = 3 =>
                  \E i \in 1..(j - 1) : IsListing(log[p][i])
                                         /\ log[p][i].result = "unlocked"
        /\ pc[p] = "Done" =>
             /\ Last(log[p]) = WriteEntry(LastApplicable(Len(snapshots[p])))
             /\ ~ \E i \in 1..Len(log[p]) : FailedStep(log[p][i])

C13_Sequential ==
    /\ C13_Order
    /\ \A p \in fleet :
         (pc[p] \in Terminal \/ mainpc = "exited") =>
             pc[p] \in {"Done", "Failed", "Skipped"}

-----------------------------------------------------------------------------
(* C14: a freshness check judges a pair fresh iff the completion time of the *)
(* last snapshot of the listing is strictly greater than the modification    *)
(* time of the raw-snapshots latest pointer; equal times are not fresh.  A   *)
(* repository without snapshots takes the minimum time and is judged not     *)
(* fresh, a normal result and not an error; a pair without a pointer takes   *)
(* the minimum time, so that any snapshot is judged fresh.                   *)
MinTime == -1

T_snap(listing) ==
    IF listing = <<>> THEN MinTime ELSE Last(listing).backup_end

T_state(p) ==
    IF IsSymlink(StateDir(p), "raw-snapshots")
    THEN Resolve(StateDir(p), "raw-snapshots").mtime
    ELSE MinTime

Judged(p, listing) ==
    [exc |-> "none", value |-> T_snap(listing) > T_state(p)]

C14_Freshness ==
    \A p \in fleet :
        /\ \A r \in restic(p, <<"snapshots">>) :
             r.rc = 0 => has_fresh_snapshot(p, r) = Judged(p, r.stdout)
        /\ \A i \in 1..Len(log[p]) :
             (IsObservation(log[p][i]) /\ log[p][i].rc = 0) =>
                 log[p][i].result \in {"fresh", "not fresh"}

\* What does hold: the rule, for a repository that holds a snapshot.
C14_FreshnessOfNonEmpty ==
    \A p \in fleet :
        /\ \A r \in restic(p, <<"snapshots">>) :
             (r.rc = 0 /\ r.stdout # <<>>) =>
                 has_fresh_snapshot(p, r) = Judged(p, r.stdout)
        /\ \A i \in 1..Len(log[p]) :
             (IsObservation(log[p][i]) /\ log[p][i].rc = 0) =>
                 log[p][i].result \in {"fresh", "not fresh", "TypeError"}

C14_EqualTimes ==
    \E p \in fleet :
        /\ Listing(p) # <<>>
        /\ IsSymlink(StateDir(p), "raw-snapshots")
        /\ T_snap(Listing(p)) = T_state(p)
        /\ pc[p] = "Skipped"

-----------------------------------------------------------------------------
(* C15: the latest pointer is advanced atomically.  In every reachable       *)
(* state, the states in which a write was interrupted included, a pointer    *)
(* that was never written is absent, and a pointer that was written at least *)
(* once is present and resolves to an existing artifact of its category; it  *)
(* is never absent or dangling after its first write.                        *)
EverWritten(d, c) == d \in DOMAIN persisted /\ c \in DOMAIN persisted[d]

ResolvesInCategory(d, c) ==
    /\ link[d][c] \in DOMAIN files[d]
    /\ link[d][c][1] = c

C15_AtomicPointer ==
    \A p \in fleet : \A c \in Categories :
        LET d == StateDir(p) IN
        IF EverWritten(d, c)
        THEN IsSymlink(d, c) /\ ResolvesInCategory(d, c)
        ELSE ~IsSymlink(d, c)

\* What does hold: a pointer that is present resolves to an artifact of its
\* category, and a pointer never written is absent; a pointer that was
\* written may be absent.
C15_NeverDangling ==
    \A p \in fleet : \A c \in Categories :
        LET d == StateDir(p) IN
        /\ IsSymlink(d, c) => (EverWritten(d, c) /\ ResolvesInCategory(d, c))
        /\ ~EverWritten(d, c) => ~IsSymlink(d, c)

-----------------------------------------------------------------------------
(* C16: a pair's orchestration creates, removes and modifies files only in   *)
(* the state directory derived from its location and backend names and       *)
(* reads its freshness pointer only there; two distinct pairs never map to   *)
(* the same directory, so no two orchestrations ever write or replace the    *)
(* same artifact or pointer.                                                 *)
Wrote(p, c) == \E i \in 1..Len(log[p]) : log[p][i] = WriteEntry(c)

C16_DirectoryOwnership ==
    \A p \in fleet : \A q \in fleet \ {p} : \A c \in Categories :
        (Wrote(p, c) /\ Wrote(q, c)) => StateDir(p) # StateDir(q)

\* What does hold: the directories written are those derived from the pairs'
\* names, and each pointer was written once by every pair that maps to its
\* directory and wrote the category.
C16_DerivedDirectories ==
    \A d \in DOMAIN files :
        /\ \E p \in fleet : StateDir(p) = d
        /\ \A c \in DOMAIN persisted[d] :
             Len(persisted[d][c]) =
                 Cardinality({p \in fleet : StateDir(p) = d /\ Wrote(p, c)})

-----------------------------------------------------------------------------
(* C17: if every tool call and every retry delay returns and the tasks are   *)
(* scheduled fairly, every orchestration eventually reaches one of the       *)
(* terminal states Done, Failed or Skipped, whatever the repository does,    *)
(* and the fleet run eventually exits.                                       *)
C17_Termination ==
    /\ \A p \in Pairs :
         (p \in fleet /\ pc[p] = "AwaitFresh") ~>
             (p \in fleet /\ pc[p] \in {"Done", "Failed", "Skipped"})
    /\ (mainpc = "collecting") ~> (mainpc = "exited")

\* What does hold: every task ends, and every run exits.
C17_EveryTaskEnds ==
    /\ \A p \in Pairs :
         (p \in fleet /\ pc[p] = "AwaitFresh") ~> (p \in fleet /\ pc[p] \in Terminal)
    /\ (mainpc = "collecting") ~> (mainpc = "exited")

-----------------------------------------------------------------------------
(* C18: all latest state files of a pair are the same age.  At the end of    *)
(* every run, Done or Failed, a run that advanced the raw-snapshots pointer  *)
(* also advanced the pointer of every other category that applies to the     *)
(* fetched snapshot count; hence a freshness check, which looks at the       *)
(* raw-snapshots pointer only, never judges a pair not fresh while another   *)
(* category is older than that pointer.                                      *)
Applicable(n) ==
    {"raw-snapshots", "snapshot-count"}
        \cup (IF n >= 1 THEN {"raw-stats-restore-size-latest"} ELSE {})
        \cup (IF n >= 2 THEN {"raw-diff-stats-latest"} ELSE {})

\* The categories that apply to the list the raw-snapshots pointer holds are
\* all as young as that pointer.
SameAge(p) ==
    LET d    == StateDir(p)
        list == Resolve(d, "raw-snapshots")
    IN  \A c \in Applicable(Len(list.content)) :
            /\ IsSymlink(d, c)
            /\ Resolve(d, c).mtime >= list.mtime

C18_SameAge ==
    \A p \in fleet :
        /\ (mainpc = "exited" /\ pc[p] \in {"Done", "Failed"}
               /\ Wrote(p, "raw-snapshots"))
              => \A c \in Applicable(Len(snapshots[p])) : Wrote(p, c)
        /\ (Len(log[p]) >= 1 /\ log[p][1].result = "not fresh"
               /\ IsSymlink(StateDir(p), "raw-snapshots"))
              => SameAge(p)

\* What does hold: a run that ends Done advanced every applicable pointer.
C18_DoneAdvancesAll ==
    \A p \in fleet :
        pc[p] = "Done" =>
            /\ \A c \in Applicable(Len(snapshots[p])) : Wrote(p, c)
            /\ SameAge(p)

-----------------------------------------------------------------------------
(* C19: the artifacts of one run describe one repository state.  In every    *)
(* run that ends Done with a snapshot count >= 1, the persisted restore-size *)
(* stats are those of the last snapshot of the list persisted in the same    *)
(* run, and the persisted count is the length of that list, also when the    *)
(* repository gains a snapshot between the sub-steps of Collect.             *)
PersistedList(p)  == Resolve(StateDir(p), "raw-snapshots").content
PersistedCount(p) == Resolve(StateDir(p), "snapshot-count").content.snapshot_count
PersistedStats(p) == Resolve(StateDir(p), "raw-stats-restore-size-latest").content

C19_OneRepositoryState ==
    \A p \in fleet :
        (pc[p] = "Done" /\ Len(snapshots[p]) >= 1) =>
            /\ PersistedList(p) = snapshots[p]
            /\ PersistedCount(p) = Len(PersistedList(p))
            /\ PersistedStats(p) = <<[total_of |-> Last(PersistedList(p)).id]>>

\* What does hold: the count is the length of the persisted list, and the
\* stats are those of the last snapshot of the list or of a later one.
C19_CountOfPersistedList ==
    \A p \in fleet :
        (pc[p] = "Done" /\ Len(snapshots[p]) >= 1) =>
            /\ PersistedList(p) = snapshots[p]
            /\ PersistedCount(p) = Len(PersistedList(p))
            /\ Len(PersistedStats(p)) = 1
            /\ PersistedStats(p)[1].total_of >= Last(PersistedList(p)).id

-----------------------------------------------------------------------------
(* C20: no snapshot is missed.  After a run that ends Done, every snapshot   *)
(* of the repository that is not in the snapshot list persisted by that run  *)
(* has a completion time strictly greater than the time of the raw-snapshots *)
(* pointer, so the next freshness check judges the pair fresh; also for a    *)
(* snapshot that completes between the listing and the write of the list.    *)
Unlisted(p) ==
    {i \in 1..Len(Listing(p)) :
        \A j \in 1..Len(PersistedList(p)) :
            PersistedList(p)[j].id # Listing(p)[i].id}

C20_NoSnapshotMissed ==
    \A p \in fleet :
        pc[p] = "Done" =>
            /\ \A i \in Unlisted(p) : Listing(p)[i].backup_end > T_state(p)
            /\ Unlisted(p) # {} =>
                  has_fresh_snapshot(p, [rc |-> 0, stdout |-> Listing(p)]).value

\* What does hold: a snapshot that is missing from the persisted list and
\* completed after the list was written is seen by the next freshness check.
C20_LaterSnapshotIsFresh ==
    \A p \in fleet :
        (pc[p] = "Done"
            /\ \E i \in Unlisted(p) : Listing(p)[i].backup_end > T_state(p))
            => has_fresh_snapshot(p, [rc |-> 0, stdout |-> Listing(p)]).value
====
